---- MODULE Spec2Model ----
(***************************************************************************)
(* semver-bespoke: the SemverThing value (semver/semver.py) and the        *)
(* compare_versions entry point of the command line tool                   *)
(* (semver/console.py).                                                    *)
(*                                                                         *)
(* Encoding of Python values:                                              *)
(*   str        a sequence of one-character strings, '' is <<>>            *)
(*   int        an integer                                                 *)
(*   attribute  a tagged value: PyNone, PyStr(s), PyInt(n), PyFloat(n)     *)
(*   unbound    a name with no object is <<>>, a bound one is <<obj>>      *)
(*   outcome    [exc |-> "none", val |-> <<v>>] for "return v",            *)
(*              [exc |-> E, val |-> <<>>]        for "raise E"             *)
(***************************************************************************)
EXTENDS Integers, Sequences, FiniteSets, TLC

VARIABLES arg, sv, ret

vars == <<arg, sv, ret>>

\* ------------------------------------------------------------------------
\* Python values
\* ------------------------------------------------------------------------

None == <<>>

Just(v) == <<v>>

Return(v) == [exc |-> "none", val |-> <<v>>]

Raise(e) == [exc |-> e, val |-> <<>>]

Returned(r) == r.exc = "none"

Val(r) == r.val[1]

\* ------------------------------------------------------------------------
\* Characters.  AsciiOrder lists the characters the model uses in code-point
\* order; Ord is the position in it, so Ord orders characters as Python's
\* str comparison does.
\* ------------------------------------------------------------------------

AsciiOrder ==
    << "\n", " ", "+", "-", ".",
       "0", "1", "2", "3", "4", "5", "6", "7", "8", "9",
       "A", "B", "Z",
       "a", "b", "c", "d", "e", "f", "g", "h", "i", "j", "k", "l", "m",
       "n", "o", "p", "q", "r", "s", "t", "u", "v", "w", "x", "y", "z" >>

Ord(c) == CHOOSE i \in 1..Len(AsciiOrder) : AsciiOrder[i] = c

\* \d and [0-9] of re_semver
Digit == {"0", "1", "2", "3", "4", "5", "6", "7", "8", "9"}

\* [1-9]
NonZeroDigit == Digit \ {"0"}

\* [a-zA-Z-]
LetterOrHyphen == {AsciiOrder[i] : i \in 16..Len(AsciiOrder)} \cup {"-"}

\* [0-9a-zA-Z-]
IdentChar == Digit \cup LetterOrHyphen

DigitVal(c) == Ord(c) - Ord("0")

\* ------------------------------------------------------------------------
\* str helpers
\* ------------------------------------------------------------------------

\* s[i:] with 1-based i
Drop(s, i) == SubSeq(s, i, Len(s))

\* first position of character c in s, 0 when absent
IndexOf(s, c) ==
    IF \E i \in 1..Len(s) : s[i] = c
    THEN CHOOSE i \in 1..Len(s) : s[i] = c /\ \A j \in 1..(i-1) : s[j] # c
    ELSE 0

\* str.split(sep): the list of pieces between occurrences of sep
RECURSIVE split(_, _)
split(s, sep) ==
    LET i == IndexOf(s, sep)
    IN  IF i = 0 THEN <<s>>
        ELSE <<SubSeq(s, 1, i-1)>> \o split(Drop(s, i+1), sep)

\* str.replace(old, new) for single characters
replace(s, old, new) == [i \in 1..Len(s) |-> IF s[i] = old THEN new ELSE s[i]]

\* sep.join(parts)
RECURSIVE join(_, _)
join(parts, sep) ==
    IF Len(parts) = 0 THEN <<>>
    ELSE IF Len(parts) = 1 THEN parts[1]
    ELSE parts[1] \o <<sep>> \o join(Tail(parts), sep)

\* Python's s < t on str: lexicographic by code point, a proper prefix is less
RECURSIVE StrLess(_, _)
StrLess(s, t) ==
    IF Len(t) = 0 THEN FALSE
    ELSE IF Len(s) = 0 THEN TRUE
    ELSE IF s[1] # t[1] THEN Ord(s[1]) < Ord(t[1])
    ELSE StrLess(Tail(s), Tail(t))

AllDigits(s) == Len(s) > 0 /\ \A i \in 1..Len(s) : s[i] \in Digit

\* value of a digit string, base 10
RECURSIVE DigitsToInt(_)
DigitsToInt(s) ==
    IF Len(s) = 0 THEN 0
    ELSE 10 * DigitsToInt(SubSeq(s, 1, Len(s)-1)) + DigitVal(s[Len(s)])

\* str.strip() as int() applies it: leading and trailing whitespace removed
RECURSIVE strip(_)
strip(s) ==
    IF Len(s) = 0 THEN s
    ELSE IF s[1] \in {" ", "\n"} THEN strip(Tail(s))
    ELSE IF s[Len(s)] \in {" ", "\n"} THEN strip(SubSeq(s, 1, Len(s) - 1))
    ELSE s

\* int() of a stripped str: an optional sign and decimal digits
int_of_stripped(t) ==
    IF Len(t) > 0 /\ t[1] = "-"
    THEN IF AllDigits(Tail(t)) THEN Return(0 - DigitsToInt(Tail(t)))
         ELSE Raise("ValueError")
    ELSE IF Len(t) > 0 /\ t[1] = "+"
    THEN IF AllDigits(Tail(t)) THEN Return(DigitsToInt(Tail(t)))
         ELSE Raise("ValueError")
    ELSE IF AllDigits(t) THEN Return(DigitsToInt(t))
    ELSE Raise("ValueError")

\* int(s) on a str: the value, or ValueError when s is not the text of an
\* integer
IntOfStr(s) == int_of_stripped(strip(s))

\* '{}'.format(n) for an int n >= 0: decimal digits without leading zeros
RECURSIVE IntToStr(_)
IntToStr(n) ==
    IF n < 10 THEN <<AsciiOrder[Ord("0") + n]>>
    ELSE IntToStr(n \div 10) \o <<AsciiOrder[Ord("0") + (n % 10)]>>

\* tagged Python values, for arguments and object attributes
PyNone == [kind |-> "NoneType", str |-> <<>>, num |-> 0]

PyStr(s) == [kind |-> "str", str |-> s, num |-> 0]

PyInt(n) == [kind |-> "int", str |-> <<>>, num |-> n]

\* a float, kept by its integer part (only its type and truth value are used)
PyFloat(n) == [kind |-> "float", str |-> <<>>, num |-> n]

\* bool(x): None, '' and 0 are false
Truthy(x) ==
    \/ x.kind = "str" /\ Len(x.str) > 0
    \/ x.kind \in {"int", "float"} /\ x.num # 0

\* ------------------------------------------------------------------------
\* re_semver (semver.py line 7)
\* ------------------------------------------------------------------------

\* 0|[1-9]\d*
NumericId(s) ==
    \/ s = <<"0">>
    \/ /\ Len(s) > 0
       /\ s[1] \in NonZeroDigit
       /\ \A i \in 2..Len(s) : s[i] \in Digit

\* \d*[a-zA-Z-][0-9a-zA-Z-]*
AlnumId(s) ==
    \E i \in 1..Len(s) :
        /\ s[i] \in LetterOrHyphen
        /\ \A j \in 1..(i-1) : s[j] \in Digit
        /\ \A j \in (i+1)..Len(s) : s[j] \in IdentChar

\* (?:0|[1-9]\d*|\d*[a-zA-Z-][0-9a-zA-Z-]*)
PrereleaseId(s) == NumericId(s) \/ AlnumId(s)

\* [0-9a-zA-Z-]+
BuildId(s) == Len(s) > 0 /\ \A i \in 1..Len(s) : s[i] \in IdentChar

\* What the pattern between ^ and $ has to consume.  No part of the pattern
\* matches a newline, and $ matches at the end of the text or just before a
\* newline that ends it.
DollarBody(text) ==
    IF Len(text) > 0 /\ text[Len(text)] = "\n"
    THEN SubSeq(text, 1, Len(text) - 1)
    ELSE text

\* the part of s before the first c (all of s when c is absent)
BeforeFirst(s, c) ==
    IF IndexOf(s, c) = 0 THEN s ELSE SubSeq(s, 1, IndexOf(s, c) - 1)

\* the part of s after the first c; None when c is absent, which is how
\* groupdict() reports an optional group that took no part in the match
AfterFirst(s, c) ==
    IF IndexOf(s, c) = 0 THEN PyNone ELSE PyStr(Drop(s, IndexOf(s, c) + 1))

\* The only way to cut body into the pattern's three sections.  The numeric
\* core holds neither '+' nor '-' and the prerelease holds no '+', so the
\* first '+' starts the build metadata and the first '-' before it starts
\* the prerelease.
sections(body) ==
    [core  |-> BeforeFirst(BeforeFirst(body, "+"), "-"),
     pre   |-> AfterFirst(BeforeFirst(body, "+"), "-"),
     build |-> AfterFirst(body, "+")]

\* the named groups when the sections match their sub-patterns, else None
match_sections(g, nums) ==
    IF /\ Len(nums) = 3
       /\ \A i \in 1..3 : NumericId(nums[i])
       /\ g.pre # PyNone =>
             \A i \in 1..Len(split(g.pre.str, ".")) :
                 PrereleaseId(split(g.pre.str, ".")[i])
       /\ g.build # PyNone =>
             \A i \in 1..Len(split(g.build.str, ".")) :
                 BuildId(split(g.build.str, ".")[i])
    THEN Just([major |-> PyStr(nums[1]),
               minor |-> PyStr(nums[2]),
               patch |-> PyStr(nums[3]),
               prerelease |-> g.pre,
               buildmetadata |-> g.build])
    ELSE None

groups_of(g) == match_sections(g, split(g.core, "."))

\* re_semver.match(text).groupdict(), or None when there is no match
re_semver_match(text) == groups_of(sections(DollarBody(text)))

\* None -> NotSemanticVersion, a match -> its groupdict
parse_result(res) ==
    IF res = None THEN Raise("NotSemanticVersion") ELSE Return(res[1])

\* parse_semver_text(text): re.match on a non-str raises TypeError
parse_semver_text(text) ==
    IF text.kind # "str" THEN Raise("TypeError")
    ELSE parse_result(re_semver_match(text.str))

\* ------------------------------------------------------------------------
\* Comparison helpers (semver.py lines 41-165)
\* ------------------------------------------------------------------------

\* rec_cmp_releases(one, two): lists of the numeric attributes.  Python 3's
\* > and < between None and anything raise TypeError.
RECURSIVE rec_cmp_releases(_, _)
\* seeded fault: only the first level is compared, equal majors end the
\* comparison as "equivalent"
rec_cmp_releases_first_level(one, two) ==
    IF Len(one) = 0 THEN Return(0)
    ELSE LET top1 == one[1]
             top2 == two[1]
         IN  IF top1.kind # "int" \/ top2.kind # "int" THEN Raise("TypeError")
             ELSE IF top1.num > top2.num THEN Return(1)
             ELSE IF top1.num < top2.num THEN Return(2)
             ELSE Return(0)

rec_cmp_releases(one, two) ==
    IF Len(one) = 0 THEN Return(0)
    ELSE LET top1 == one[1]
             top2 == two[1]
         IN  IF top1.kind # "int" \/ top2.kind # "int" THEN Raise("TypeError")
             ELSE IF top1.num > top2.num THEN Return(1)
             ELSE IF top1.num < top2.num THEN Return(2)
             ELSE rec_cmp_releases(Tail(one), Tail(two))

\* rec_cmp_prereleases(one, two): lists of str
RECURSIVE rec_cmp_prereleases(_, _)
\* seeded fault: an int next to a str is decided by comparing the two
\* identifiers as text
rec_cmp_prereleases_mixed_as_text(one, two) ==
    IF one = two THEN 0
    ELSE IF Len(one) = 0 THEN 2
    ELSE IF Len(two) = 0 THEN 1
    ELSE LET int1 == IntOfStr(one[1])
             int2 == IntOfStr(two[1])
         IN  IF Returned(int1) /\ Returned(int2)
             THEN IF Val(int1) = Val(int2)
                  THEN rec_cmp_prereleases(Tail(one), Tail(two))
                  ELSE IF Val(int1) > Val(int2) THEN 1
                  ELSE 2
             ELSE IF one[1] = two[1]
                  THEN rec_cmp_prereleases(Tail(one), Tail(two))
                  ELSE IF StrLess(two[1], one[1]) THEN 1
                  ELSE 2

rec_cmp_prereleases(one, two) ==
    IF one = two THEN 0
    ELSE IF Len(one) = 0 THEN 2
    ELSE IF Len(two) = 0 THEN 1
    ELSE LET int1 == IntOfStr(one[1])
             int2 == IntOfStr(two[1])
             \* the keys of cmp_strs and cmp_ints
             cmp_strs == {k \in {1, 2} : ~Returned(IF k = 1 THEN int1 ELSE int2)}
             cmp_ints == {1, 2} \ cmp_strs
         IN  IF Cardinality(cmp_strs) = 2
             THEN IF one[1] = two[1]
                  THEN rec_cmp_prereleases(Tail(one), Tail(two))
                  ELSE IF StrLess(two[1], one[1]) THEN 1
                  ELSE 2
             ELSE IF Cardinality(cmp_ints) = 2
             THEN IF Val(int1) = Val(int2)
                  THEN rec_cmp_prereleases(Tail(one), Tail(two))
                  ELSE IF Val(int1) > Val(int2) THEN 1
                  ELSE 2
             \* Apples and oranges: the key of the one str
             ELSE CHOOSE k \in cmp_strs : TRUE

\* seeded fault: the two final returns are swapped, the side with a
\* prerelease wins over the side without
cmp_prerelease_swapped(sv1, sv2) ==
    IF sv1.prerelease = sv2.prerelease THEN 0
    ELSE IF Truthy(sv1.prerelease) /\ Truthy(sv2.prerelease)
    THEN rec_cmp_prereleases(split(replace(sv1.prerelease.str, "-", "."), "."),
                             split(replace(sv2.prerelease.str, "-", "."), "."))
    ELSE IF Truthy(sv1.prerelease) /\ ~Truthy(sv2.prerelease) THEN 1
    ELSE 2

\* seeded fault: two prereleases are compared as whole strings
cmp_prerelease_whole_text(sv1, sv2) ==
    IF sv1.prerelease = sv2.prerelease THEN 0
    ELSE IF Truthy(sv1.prerelease) /\ Truthy(sv2.prerelease)
    THEN IF StrLess(sv2.prerelease.str, sv1.prerelease.str) THEN 1 ELSE 2
    ELSE IF Truthy(sv1.prerelease) /\ ~Truthy(sv2.prerelease) THEN 2
    ELSE 1

\* cmp_prerelease(sv1, sv2)
cmp_prerelease(sv1, sv2) ==
    IF sv1.prerelease = sv2.prerelease THEN 0
    ELSE IF Truthy(sv1.prerelease) /\ Truthy(sv2.prerelease)
    THEN LET pre1 == replace(sv1.prerelease.str, "-", ".")
             pre2 == replace(sv2.prerelease.str, "-", ".")
         IN  rec_cmp_prereleases(split(pre1, "."), split(pre2, "."))
    ELSE IF Truthy(sv1.prerelease) /\ ~Truthy(sv2.prerelease) THEN 2
    ELSE 1

\* ------------------------------------------------------------------------
\* class SemverThing (semver.py lines 168-375).  An object is a record of its
\* five attributes, each a tagged Python value.
\* ------------------------------------------------------------------------

\* kwargs.get(key, default); kwargs is a function from the given keys
kwargs_get(kwargs, key, default) ==
    IF key \in DOMAIN kwargs THEN kwargs[key] ELSE default

\* int(value)
int_of(r) == IF Returned(r) THEN Return(PyInt(Val(r))) ELSE r

to_int(value) ==
    IF value.kind = "str" THEN int_of(IntOfStr(value.str))
    ELSE IF value.kind = "NoneType" THEN Raise("TypeError")
    ELSE Return(PyInt(value.num))

\* what a setter of major, minor or patch stores for value
numeric_setter(value) ==
    IF value = PyNone THEN Return(PyNone) ELSE to_int(value)

\* self.major = value: the outcome is the new object
assign_major(self, r) ==
    IF Returned(r) THEN Return([self EXCEPT !.major = Val(r)]) ELSE r

major_setter(self, value) == assign_major(self, numeric_setter(value))

\* self.minor = value
assign_minor(self, r) ==
    IF Returned(r) THEN Return([self EXCEPT !.minor = Val(r)]) ELSE r

minor_setter(self, value) == assign_minor(self, numeric_setter(value))

\* self.patch = value
assign_patch(self, r) ==
    IF Returned(r) THEN Return([self EXCEPT !.patch = Val(r)]) ELSE r

patch_setter(self, value) == assign_patch(self, numeric_setter(value))

\* lines 234-238 of __init__: the five assignments, in order; the first
\* setter that raises ends the construction
init_attributes(major, minor, patch, kw) ==
    IF ~Returned(major) THEN major
    ELSE IF ~Returned(minor) THEN minor
    ELSE IF ~Returned(patch) THEN patch
    ELSE Return([major |-> Val(major),
                 minor |-> Val(minor),
                 patch |-> Val(patch),
                 prerelease |-> kwargs_get(kw, "prerelease", PyStr(<<>>)),
                 buildmetadata |-> kwargs_get(kw, "buildmetadata", PyStr(<<>>))])

init_from_kwargs(kw) ==
    init_attributes(numeric_setter(kwargs_get(kw, "major", PyNone)),
                    numeric_setter(kwargs_get(kw, "minor", PyNone)),
                    numeric_setter(kwargs_get(kw, "patch", PyNone)),
                    kw)

\* lines 228-232 of __init__: TypeError becomes NotSemanticVersion, any
\* other exception of the parser propagates
init_from_parsed(parsed) ==
    IF parsed.exc = "TypeError" THEN Raise("NotSemanticVersion")
    ELSE IF ~Returned(parsed) THEN parsed
    ELSE init_from_kwargs(Val(parsed))

\* SemverThing(text, **kwargs): the new object, or the exception raised
SemverThing(text, kwargs) ==
    IF Truthy(text) THEN init_from_parsed(parse_semver_text(text))
    ELSE init_from_kwargs(kwargs)

\* [self.major, self.minor, self.patch]
release(self) == <<self.major, self.minor, self.patch>>

lt_conditions(result, self, other) ==
    IF ~Returned(result) THEN result
    ELSE IF Val(result) \in {1, 2} THEN Return(Val(result) = 2)
    ELSE Return(cmp_prerelease(self, other) = 2)

\* self < other
__lt__(self, other) ==
    lt_conditions(rec_cmp_releases(release(self), release(other)), self, other)

gt_conditions(result, self, other) ==
    IF ~Returned(result) THEN result
    ELSE IF Val(result) \in {1, 2} THEN Return(Val(result) = 1)
    ELSE Return(cmp_prerelease(self, other) = 1)

\* seeded fault: > answers from the conditions table of <
gt_with_lt_conditions(self, other) ==
    lt_conditions(rec_cmp_releases(release(self), release(other)), self, other)

\* self > other
__gt__(self, other) ==
    gt_conditions(rec_cmp_releases(release(self), release(other)), self, other)

eq_conditions(result, self, other) ==
    IF ~Returned(result) THEN result
    ELSE IF Val(result) # 0 THEN Return(FALSE)
    ELSE Return(cmp_prerelease(self, other) = 0)

\* seeded fault: == also wants equal build metadata
eq_with_buildmetadata(self, other) ==
    IF self.buildmetadata = other.buildmetadata
    THEN eq_conditions(rec_cmp_releases(release(self), release(other)), self, other)
    ELSE Return(FALSE)

\* self == other
__eq__(self, other) ==
    eq_conditions(rec_cmp_releases(release(self), release(other)), self, other)

\* "if first: return True; if second: return True; return False", where
\* either call may raise
either(first, second) ==
    IF ~Returned(first) THEN first
    ELSE IF Val(first) THEN Return(TRUE)
    ELSE IF ~Returned(second) THEN second
    ELSE IF Val(second) THEN Return(TRUE)
    ELSE Return(FALSE)

\* self <= other
__le__(self, other) == either(__eq__(self, other), __lt__(self, other))

\* self >= other
__ge__(self, other) == either(__eq__(self, other), __gt__(self, other))

negate(eq) == IF ~Returned(eq) THEN eq ELSE Return(~Val(eq))

\* self != other
__ne__(self, other) == negate(__eq__(self, other))

\* '{}'.format(value) of an attribute
format_value(value) ==
    IF value.kind = "NoneType" THEN <<"N", "o", "n", "e">>
    ELSE IF value.kind = "str" THEN value.str
    ELSE IF value.num < 0 THEN <<"-">> \o IntToStr(0 - value.num)
    ELSE IntToStr(value.num)

\* seeded fault: the branch for "prerelease and build metadata" is missing
str_without_both(self) ==
    LET core == format_value(self.major) \o <<".">> \o format_value(self.minor)
                \o <<".">> \o format_value(self.patch)
    IN  IF Truthy(self.prerelease)
        THEN core \o <<"-">> \o format_value(self.prerelease)
        ELSE IF Truthy(self.buildmetadata)
        THEN core \o <<"+">> \o format_value(self.buildmetadata)
        ELSE core

\* str(self)
__str__(self) ==
    LET core == format_value(self.major) \o <<".">> \o format_value(self.minor)
                \o <<".">> \o format_value(self.patch)
    IN  IF Truthy(self.prerelease) /\ Truthy(self.buildmetadata)
        THEN core \o <<"-">> \o format_value(self.prerelease)
                  \o <<"+">> \o format_value(self.buildmetadata)
        ELSE IF Truthy(self.prerelease)
        THEN core \o <<"-">> \o format_value(self.prerelease)
        ELSE IF Truthy(self.buildmetadata)
        THEN core \o <<"+">> \o format_value(self.buildmetadata)
        ELSE core

\* repr(self)
__repr__(self) ==
    <<"<", "S", "e", "m", "v", "e", "r", "T", "h", "i", "n", "g", " ">>
    \o __str__(self) \o <<">">>

\* ------------------------------------------------------------------------
\* compare_versions (console.py lines 9-36).  The outcome carries the label
\* returned; sv1 and sv2 are the function's two local objects, None when the
\* constructor raised before the assignment.
\* ------------------------------------------------------------------------

\* the four answers of compare_versions
INVALID == PyStr(<<"i", "n", "v", "a", "l", "i", "d">>)

BEFORE == PyStr(<<"b", "e", "f", "o", "r", "e">>)

AFTER == PyStr(<<"a", "f", "t", "e", "r">>)

EQUAL == PyStr(<<"e", "q", "u", "a", "l">>)

\* lines 27-36: the first of <, >, == that is true decides; TypeError gives
\* 'invalid'; when none is true the function ends without a return (None)
classify(lt, gt, eq) ==
    IF lt.exc = "TypeError" THEN Return(INVALID)
    ELSE IF Val(lt) THEN Return(BEFORE)
    ELSE IF gt.exc = "TypeError" THEN Return(INVALID)
    ELSE IF Val(gt) THEN Return(AFTER)
    ELSE IF eq.exc = "TypeError" THEN Return(INVALID)
    ELSE IF Val(eq) THEN Return(EQUAL)
    ELSE Return(PyNone)

\* lines 21-25 and the hand-over to lines 27-36; c1 and c2 are the outcomes
\* of the two constructor calls, the second made only when the first returned
compare_constructed(c1, c2) ==
    IF c1.exc = "NotSemanticVersion"
    THEN [sv1 |-> None, sv2 |-> None, out |-> Return(INVALID)]
    ELSE IF ~Returned(c1)
    THEN [sv1 |-> None, sv2 |-> None, out |-> c1]
    ELSE IF c2.exc = "NotSemanticVersion"
    THEN [sv1 |-> c1.val, sv2 |-> None, out |-> Return(INVALID)]
    ELSE IF ~Returned(c2)
    THEN [sv1 |-> c1.val, sv2 |-> None, out |-> c2]
    ELSE [sv1 |-> c1.val, sv2 |-> c2.val,
          out |-> classify(__lt__(Val(c1), Val(c2)),
                           __gt__(Val(c1), Val(c2)),
                           __eq__(Val(c1), Val(c2)))]

compare_versions(vstr1, vstr2) ==
    compare_constructed(SemverThing(vstr1, <<>>), SemverThing(vstr2, <<>>))

\* ------------------------------------------------------------------------
\* Arguments the callers pass
\* ------------------------------------------------------------------------

MaxNum == 1

MaxIdents == 2

\* the precedence chain of the SemVer 2.0.0 document (test_console.py)
GOLD_STANDARD ==
    << <<"1", ".", "0", ".", "0", "-", "a", "l", "p", "h", "a">>,
      <<"1", ".", "0", ".", "0", "-", "a", "l", "p", "h", "a", ".", "1">>,
      <<"1", ".", "0", ".", "0", "-", "a", "l", "p", "h", "a", ".", "b", "e", "t", "a">>,
      <<"1", ".", "0", ".", "0", "-", "b", "e", "t", "a">>,
      <<"1", ".", "0", ".", "0", "-", "b", "e", "t", "a", ".", "2">>,
      <<"1", ".", "0", ".", "0", "-", "b", "e", "t", "a", ".", "1", "1">>,
      <<"1", ".", "0", ".", "0", "-", "r", "c", ".", "1">>,
      <<"1", ".", "0", ".", "0">> >>

\* test_semver.py: strings that parse
semver_correct ==
    { <<"1", ".", "2", ".", "3", "-", "b", "l", "a", "h", "+", "t", "h", "i", "n", "g">>,
      <<"1", ".", "2", ".", "3">>,
      <<"1", ".", "2", ".", "3", "-", "b", "l", "a", "h">>,
      <<"1", ".", "2", ".", "3", "+", "t", "h", "i", "n", "g">> }

\* test_semver.py: strings that raise NotSemanticVersion
semver_wrong ==
    { <<"2", ".", "3", "-", "b", "l", "a", "h">>,
      <<"0", ".", "0">>,
      <<"2", "3", "4", "2", "3", "5", "-", "p", "r", "e", "r", "e", "l", "e", "a", "s", "e">>,
      <<"4", "2", "5">> }

\* test_semver.py test_semver_cmp_operators, and 9.0.0 / 10.0.0 whose majors order differently as text
OPERATOR_VERSIONS ==
    { <<"0", ".", "0", ".", "1">>,
      <<"1", "0", ".", "1", "0", ".", "1", "0">>,
      <<"2", ".", "4", ".", "6">>,
      <<"2", ".", "6", ".", "6">>,
      <<"2", ".", "6", ".", "7">>,
      <<"9", ".", "0", ".", "0">>,
      <<"1", "0", ".", "0", ".", "0">> }

\* valid strings after the fixtures EXPECT_BEFORE / EXPECT_AFTER / EXPECT_EQUAL of
\* test_console.py, and one with both a prerelease and build metadata
EXPECT_VALID ==
    { <<"2", ".", "3", ".", "4">>,
      <<"2", ".", "3", ".", "4", "-", "a", "l", "p", "h", "a">>,
      <<"2", ".", "3", ".", "5", "-", "a", "l", "p", "h", "a", "+", "t", "e", "s", "t">>,
      <<"1", ".", "2", ".", "3", "+", "t", "e", "s", "t">>,
      <<"1", ".", "2", ".", "3", "+", "t", "h", "i", "n", "g", "1">>,
      <<"1", ".", "2", ".", "3", "+", "t", "h", "i", "n", "g", "2">> }

\* test_console.py: the unparseable strings of EXPECT_INVALID
EXPECT_INVALID ==
    { <<"1", ".", "1">>,
      <<"0", ".", "1", "-", "a", "l", "p", "h", "a">>,
      <<"1", ".", "2", "+", "t", "e", "s", "t">> }

\* prereleases with hyphens, and numeric next to alphanumeric identifiers
MIXED_PRERELEASES ==
    { <<"1", ".", "0", ".", "0", "-", "a", "l", "p", "h", "a", "-", "1">>,
      <<"1", ".", "0", ".", "0", "-", "a", "l", "p", "h", "a", "-", "1", "1">>,
      <<"1", ".", "0", ".", "0", "-", "a", "l", "p", "h", "a", "-", "2">>,
      <<"1", ".", "0", ".", "0", "-", "1">>,
      <<"1", ".", "0", ".", "0", "-", "0", "1", "a">>,
      <<"1", ".", "0", ".", "0", "-", "-">>,
      <<"1", ".", "0", ".", "0", "-", "a", "l", "p", "h", "a", ".", "1", "a">>,
      <<"1", ".", "0", ".", "0", "-", "1", "-", "a">> }

\* strings outside the grammar: empty, leading zeros, extra characters, empty identifiers
MALFORMED ==
    { <<>>,
      <<"0", "1", ".", "2", ".", "3">>,
      <<"1", ".", "0", "2", ".", "3">>,
      <<"1", ".", "2", ".", "0", "3">>,
      <<"1", ".", "2", ".", "3", "-", "0", "1">>,
      <<" ", "1", ".", "2", ".", "3">>,
      <<"1", ".", "2", ".", "3", " ">>,
      <<"v", "1", ".", "2", ".", "3">>,
      <<"1", ".", "2", ".", "3", "\n">>,
      <<"1", ".", "2", ".", "3", "-", "a", "\n">>,
      <<"1", ".", "2", ".", "3", "\n", "\n">>,
      <<"\n", "1", ".", "2", ".", "3">>,
      <<"1", ".", "2", ".", "3", "-">>,
      <<"1", ".", "2", ".", "3", "+">>,
      <<"1", ".", "2", ".", "3", "-", "a", ".", ".", "b">>,
      <<"1", ".", "2", ".", "3", ".", "4">>,
      <<"1", ".", "2", ".", "3", "-", "a", "+", "b", "+", "c">> }


\* m.n.p for every m, n, p up to MaxNum
GenCores ==
    {join(<<IntToStr(m), IntToStr(n), IntToStr(p)>>, ".") : m, n, p \in 0..MaxNum}

\* identifiers the generated prereleases are made of: a numeric one and a
\* hyphenated one
IdentPool == << <<"2">>, <<"a", "-", "1", "1">> >>

\* 1.0.0-<ids> for every list of 1..MaxIdents identifiers of IdentPool
GenPrereleases ==
    {<<"1", ".", "0", ".", "0", "-">> \o join([i \in DOMAIN f |-> IdentPool[f[i]]], ".") :
        f \in UNION {[1..n -> 1..Len(IdentPool)] : n \in 1..MaxIdents}}

Range(f) == {f[i] : i \in DOMAIN f}

\* the strings of the grammar among the arguments
ValidTexts ==
    Range(GOLD_STANDARD) \cup semver_correct \cup OPERATOR_VERSIONS
    \cup EXPECT_VALID \cup MIXED_PRERELEASES \cup GenCores
    \cup GenPrereleases

\* the strings outside the grammar among the arguments
InvalidTexts == semver_wrong \cup EXPECT_INVALID \cup MALFORMED

\* every argument: strings, None, and the floats of EXPECT_INVALID
Inputs ==
    {PyStr(t) : t \in ValidTexts \cup InvalidTexts}
    \cup {PyNone, PyFloat(1), PyFloat(10), PyInt(0)}

\* ------------------------------------------------------------------------
\* State.  arg[i] is the argument the constructor of sv<i> was called with
\* (None before the call), sv[i] the object bound to the name sv<i> (None
\* while unbound: before the call, or when the constructor raised), ret the
\* last call made and its outcome.  sv1 and sv2 are bound one at a time by
\* the caller, or both by compare_versions, whose locals they are.
\* ------------------------------------------------------------------------

Slots == {1, 2}

Init ==
    /\ arg = <<None, None>>
    /\ sv = <<None, None>>
    /\ ret = [op |-> "none", out |-> Return(PyNone)]

\* sv<i> = SemverThing(text)
Construct(i) ==
    /\ arg[i] = None
    /\ \E text \in Inputs :
          LET r == SemverThing(text, <<>>)
          IN  /\ arg' = [arg EXCEPT ![i] = Just(text)]
              /\ sv' = [sv EXCEPT ![i] = r.val]
              /\ ret' = [op |-> "SemverThing", out |-> r]

Bound == sv[1] # None /\ sv[2] # None

\* sv1 < sv2
Lt ==
    /\ Bound
    /\ ret' = [op |-> "__lt__", out |-> __lt__(sv[1][1], sv[2][1])]
    /\ UNCHANGED <<arg, sv>>

\* sv1 <= sv2
Le ==
    /\ Bound
    /\ ret' = [op |-> "__le__", out |-> __le__(sv[1][1], sv[2][1])]
    /\ UNCHANGED <<arg, sv>>

\* sv1 > sv2
Gt ==
    /\ Bound
    /\ ret' = [op |-> "__gt__", out |-> __gt__(sv[1][1], sv[2][1])]
    /\ UNCHANGED <<arg, sv>>

\* sv1 >= sv2
Ge ==
    /\ Bound
    /\ ret' = [op |-> "__ge__", out |-> __ge__(sv[1][1], sv[2][1])]
    /\ UNCHANGED <<arg, sv>>

\* sv1 == sv2
Eq ==
    /\ Bound
    /\ ret' = [op |-> "__eq__", out |-> __eq__(sv[1][1], sv[2][1])]
    /\ UNCHANGED <<arg, sv>>

\* sv1 != sv2
Ne ==
    /\ Bound
    /\ ret' = [op |-> "__ne__", out |-> __ne__(sv[1][1], sv[2][1])]
    /\ UNCHANGED <<arg, sv>>

\* str(sv1)
Str ==
    /\ sv[1] # None
    /\ ret' = [op |-> "__str__", out |-> Return(PyStr(__str__(sv[1][1])))]
    /\ UNCHANGED <<arg, sv>>

\* compare_versions(vstr1, vstr2), called with nothing bound yet: sv1 and sv2
\* are the locals of its fresh frame
CompareVersions ==
    /\ arg = <<None, None>>
    /\ \E vstr1, vstr2 \in Inputs :
          LET r == compare_versions(vstr1, vstr2)
          IN  /\ arg' = <<Just(vstr1), Just(vstr2)>>
              /\ sv' = <<r.sv1, r.sv2>>
              /\ ret' = [op |-> "compare_versions", out |-> r.out]

Next ==
    \/ \E i \in Slots : Construct(i)
    \/ Lt
    \/ Le
    \/ Gt
    \/ Ge
    \/ Eq
    \/ Ne
    \/ Str
    \/ CompareVersions

Spec == Init /\ [][Next]_vars

\* ------------------------------------------------------------------------
\* The three ways of building an object (class docstring, semver.py lines
\* 169-200): from text, from keyword arguments, and as a blank slate whose
\* attributes are assigned afterwards.
\* ------------------------------------------------------------------------

\* text arguments: none, a release and a prerelease
FieldTexts ==
    { PyNone,
      PyStr(<<"1", ".", "1", ".", "1">>),
      PyStr(<<"1", ".", "1", ".", "1", "-", "a", "l", "p", "h", "a">>) }

\* keyword arguments: none, major alone, the three numbers as ints, as str
\* with a prerelease, and a major that is not a number
KwargsInputs ==
    << <<>>,
       [major |-> PyInt(1)],
       [major |-> PyInt(1), minor |-> PyInt(1), patch |-> PyInt(1)],
       [major |-> PyStr(<<"1">>), minor |-> PyStr(<<"1">>), patch |-> PyStr(<<"1">>),
        prerelease |-> PyStr(<<"a", "l", "p", "h", "a">>)],
       [major |-> PyStr(<<"x">>)] >>

\* values assigned to major, minor and patch
AssignedValues ==
    { PyNone, PyInt(1), PyStr(<<"-", "1">>), PyStr(<<"x">>) }

\* sv<i> = SemverThing(text, **kwargs)
ConstructWith(i) ==
    /\ arg[i] = None
    /\ \E text \in FieldTexts : \E k \in DOMAIN KwargsInputs :
          LET r == SemverThing(text, KwargsInputs[k])
          IN  /\ arg' = [arg EXCEPT ![i] = Just(text)]
              /\ sv' = [sv EXCEPT ![i] = r.val]
              /\ ret' = [op |-> "SemverThing", out |-> r]

\* an assignment statement: it yields nothing, or the setter's exception
assignment(r) == IF Returned(r) THEN Return(PyNone) ELSE r

\* the object after the assignment: unchanged when the setter raised
assigned_object(self, r) == IF Returned(r) THEN Val(r) ELSE self

\* sv<i>.major = value
SetMajor(i) ==
    /\ sv[i] # None
    /\ \E value \in AssignedValues :
          /\ sv' = [sv EXCEPT ![i] =
                       Just(assigned_object(sv[i][1], major_setter(sv[i][1], value)))]
          /\ ret' = [op |-> "major.setter",
                     out |-> assignment(major_setter(sv[i][1], value))]
    /\ UNCHANGED arg

\* sv<i>.minor = value
SetMinor(i) ==
    /\ sv[i] # None
    /\ \E value \in AssignedValues :
          /\ sv' = [sv EXCEPT ![i] =
                       Just(assigned_object(sv[i][1], minor_setter(sv[i][1], value)))]
          /\ ret' = [op |-> "minor.setter",
                     out |-> assignment(minor_setter(sv[i][1], value))]
    /\ UNCHANGED arg

\* sv<i>.patch = value
SetPatch(i) ==
    /\ sv[i] # None
    /\ \E value \in AssignedValues :
          /\ sv' = [sv EXCEPT ![i] =
                       Just(assigned_object(sv[i][1], patch_setter(sv[i][1], value)))]
          /\ ret' = [op |-> "patch.setter",
                     out |-> assignment(patch_setter(sv[i][1], value))]
    /\ UNCHANGED arg

\* repr(sv1)
Repr ==
    /\ sv[1] # None
    /\ ret' = [op |-> "__repr__", out |-> Return(PyStr(__repr__(sv[1][1])))]
    /\ UNCHANGED <<arg, sv>>

NextFields ==
    \/ \E i \in Slots : ConstructWith(i)
    \/ \E i \in Slots : SetMajor(i)
    \/ \E i \in Slots : SetMinor(i)
    \/ \E i \in Slots : SetPatch(i)
    \/ Lt
    \/ Le
    \/ Gt
    \/ Ge
    \/ Eq
    \/ Ne
    \/ Str
    \/ Repr

SpecFields == Init /\ [][NextFields]_vars

\* ------------------------------------------------------------------------
\* The grammar of a version string, as the specification words it
\* (major "." minor "." patch ["-" prerelease] ["+" buildmetadata]); the
\* properties below take "valid" from here, not from re_semver.
\* ------------------------------------------------------------------------

\* a non-negative integer without leading zeros
GrammarNumeric(s) == AllDigits(s) /\ (Len(s) = 1 \/ s[1] # "0")

\* letters, digits and hyphens with at least one letter or hyphen
GrammarAlphanumeric(s) ==
    /\ Len(s) > 0
    /\ \A i \in 1..Len(s) : s[i] \in IdentChar
    /\ \E i \in 1..Len(s) : s[i] \notin Digit

GrammarBuildId(s) == Len(s) > 0 /\ \A i \in 1..Len(s) : s[i] \in IdentChar

\* the whole of s, first to last character, is a version: q is where the
\* prerelease section starts and p where the build section starts
Derivable(s) ==
    \E p \in 1..(Len(s) + 1) : \E q \in 1..p :
        /\ p <= Len(s) => s[p] = "+"
        /\ q < p => s[q] = "-"
        /\ Len(split(SubSeq(s, 1, q - 1), ".")) = 3
        /\ \A i \in 1..3 : GrammarNumeric(split(SubSeq(s, 1, q - 1), ".")[i])
        /\ q < p =>
              \A i \in 1..Len(split(SubSeq(s, q + 1, p - 1), ".")) :
                  LET id == split(SubSeq(s, q + 1, p - 1), ".")[i]
                  IN  GrammarNumeric(id) \/ GrammarAlphanumeric(id)
        /\ p <= Len(s) =>
              \A i \in 1..Len(split(SubSeq(s, p + 1, Len(s)), ".")) :
                  GrammarBuildId(split(SubSeq(s, p + 1, Len(s)), ".")[i])

\* the arguments that are valid version strings
DerivableInputs == {x \in Inputs : x.kind = "str" /\ Derivable(x.str)}

\* sv<i> was constructed from a valid version string
ValidArg(i) == arg[i] # None /\ arg[i][1] \in DerivableInputs

BothValid == ValidArg(1) /\ ValidArg(2)

\* every valid version string of the arguments with the object built from it
Versions ==
    {[text |-> x.str, obj |-> Val(SemverThing(x, <<>>))] :
        x \in {y \in DerivableInputs : Returned(SemverThing(y, <<>>))}}

Text(i) == arg[i][1].str

A == sv[1][1]

B == sv[2][1]

IsTrue(r) == Returned(r) /\ Val(r) = TRUE

IsFalse(r) == Returned(r) /\ Val(r) = FALSE

ExactlyOne(x, y, z) ==
    \/ x /\ ~y /\ ~z
    \/ ~x /\ y /\ ~z
    \/ ~x /\ ~y /\ z

\* (major, minor, patch) of a is lexicographically below that of b
TripleLess(a, b) ==
    \/ a.major.num < b.major.num
    \/ a.major.num = b.major.num /\ a.minor.num < b.minor.num
    \/ a.major.num = b.major.num /\ a.minor.num = b.minor.num
       /\ a.patch.num < b.patch.num

\* the text has a prerelease section
HasPrerelease(text) == IndexOf(BeforeFirst(text, "+"), "-") # 0

\* the identifiers of the prerelease section of the text
PrereleaseIds(text) == split(AfterFirst(BeforeFirst(text, "+"), "-").str, ".")

IsProperPrefix(s, t) == Len(s) < Len(t) /\ SubSeq(t, 1, Len(s)) = s

\* ------------------------------------------------------------------------
\* Properties
\* ------------------------------------------------------------------------

\* C1: for valid version strings a and b, both constructions succeed, none of
\* a < b, a == b, a > b raises, exactly one of them is true, a < b holds
\* exactly when b > a does, and a == b exactly when b == a.
C1_TotalAntisymmetric ==
    BothValid =>
        /\ Bound
        /\ Returned(__lt__(A, B)) /\ Returned(__eq__(A, B)) /\ Returned(__gt__(A, B))
        /\ Returned(__gt__(B, A)) /\ Returned(__eq__(B, A))
        /\ ExactlyOne(Val(__lt__(A, B)), Val(__eq__(A, B)), Val(__gt__(A, B)))
        /\ Val(__lt__(A, B)) = Val(__gt__(B, A))
        /\ Val(__eq__(A, B)) = Val(__eq__(B, A))

\* a < b was evaluated and is true for two versions that differ only in
\* their prereleases
C1_Witness ==
    /\ BothValid /\ Bound
    /\ ret.op = "__lt__" /\ IsTrue(ret.out)
    /\ release(A) = release(B)
    /\ HasPrerelease(Text(1)) /\ HasPrerelease(Text(2))

\* C2: the ordering is transitive.  With a < b just evaluated as true, a < c
\* follows from b < c for every valid c; with a == b just evaluated as true,
\* a == c follows from b == c.
C2_Transitive ==
    /\ (BothValid /\ Bound /\ ret.op = "__lt__" /\ IsTrue(ret.out)) =>
          \A c \in Versions :
              IsTrue(__lt__(B, c.obj)) => IsTrue(__lt__(A, c.obj))
    /\ (BothValid /\ Bound /\ ret.op = "__eq__" /\ IsTrue(ret.out)) =>
          \A c \in Versions :
              IsTrue(__eq__(B, c.obj)) => IsTrue(__eq__(A, c.obj))

\* a < b is true where a's prerelease ends in a number and b's in a
\* hyphenated identifier that the comparison cuts in two, and some valid c
\* is above b
C2_Witness ==
    /\ BothValid /\ Bound
    /\ ret.op = "__lt__" /\ IsTrue(ret.out)
    /\ Text(1) = <<"1", ".", "0", ".", "0", "-", "a", "l", "p", "h", "a", ".", "1">>
    /\ Text(2) = <<"1", ".", "0", ".", "0", "-", "a", "l", "p", "h", "a", "-", "2">>
    /\ \E c \in Versions : HasPrerelease(c.text) /\ IsTrue(__lt__(B, c.obj))

\* C3: when the (major, minor, patch) triples of two valid versions differ,
\* the integer triples decide: the version with the smaller triple is <, <=
\* and != the other and is not >, >= or == to it, whatever the prereleases
\* and build metadata are.
C3_TripleDecides ==
    (BothValid /\ Bound /\ release(A) # release(B)) =>
        /\ __lt__(A, B) = Return(TripleLess(A, B))
        /\ __le__(A, B) = Return(TripleLess(A, B))
        /\ __ne__(A, B) = Return(TRUE)
        /\ __gt__(A, B) = Return(~TripleLess(A, B))
        /\ __ge__(A, B) = Return(~TripleLess(A, B))
        /\ __eq__(A, B) = Return(FALSE)

\* 9.0.0 <= 10.0.0 was evaluated and is true
C3_Witness ==
    /\ Bound
    /\ Text(1) = <<"9", ".", "0", ".", "0">>
    /\ Text(2) = <<"1", "0", ".", "0", ".", "0">>
    /\ ret.op = "__le__" /\ IsTrue(ret.out)

\* C4: for two valid versions with equal (major, minor, patch) of which
\* exactly one has a prerelease, the one without it is strictly greater, in
\* both argument orders; compare_versions answers 'before' when the first has
\* the prerelease and 'after' when the second has it.
C4_ReleaseAbovePrerelease ==
    /\ (BothValid /\ Bound /\ release(A) = release(B)
        /\ HasPrerelease(Text(1)) /\ ~HasPrerelease(Text(2))) =>
          /\ IsTrue(__lt__(A, B)) /\ IsFalse(__gt__(A, B)) /\ IsFalse(__eq__(A, B))
          /\ IsTrue(__gt__(B, A)) /\ IsFalse(__lt__(B, A)) /\ IsFalse(__eq__(B, A))
          /\ ret.op = "compare_versions" => ret.out = Return(BEFORE)
    /\ (BothValid /\ Bound /\ release(A) = release(B)
        /\ ~HasPrerelease(Text(1)) /\ HasPrerelease(Text(2))) =>
          /\ IsTrue(__gt__(A, B)) /\ IsFalse(__lt__(A, B)) /\ IsFalse(__eq__(A, B))
          /\ ret.op = "compare_versions" => ret.out = Return(AFTER)

\* compare_versions('2.3.4', '2.3.4-alpha') returned 'after'
C4_Witness ==
    /\ ret.op = "compare_versions"
    /\ arg[1] # None /\ arg[2] # None
    /\ Text(1) = <<"2", ".", "3", ".", "4">>
    /\ Text(2) = <<"2", ".", "3", ".", "4", "-", "a", "l", "p", "h", "a">>
    /\ ret.out = Return(AFTER)

\* C5: compare_versions answers 'before' for each adjacent pair of the
\* SemVer 2.0.0 chain and 'after' for each adjacent pair of the reversed
\* chain; and of two valid versions with equal triples, the one whose list of
\* prerelease identifiers is a proper prefix of the other's is lower.
C5_PrecedenceChain ==
    /\ ret.op = "compare_versions" =>
          \A k \in 1..(Len(GOLD_STANDARD) - 1) :
              /\ (arg[1] = Just(PyStr(GOLD_STANDARD[k]))
                  /\ arg[2] = Just(PyStr(GOLD_STANDARD[k + 1])))
                    => ret.out = Return(BEFORE)
              /\ (arg[1] = Just(PyStr(GOLD_STANDARD[k + 1]))
                  /\ arg[2] = Just(PyStr(GOLD_STANDARD[k])))
                    => ret.out = Return(AFTER)
    /\ (BothValid /\ Bound /\ release(A) = release(B)
        /\ HasPrerelease(Text(1)) /\ HasPrerelease(Text(2))
        /\ IsProperPrefix(PrereleaseIds(Text(1)), PrereleaseIds(Text(2)))) =>
          IsTrue(__lt__(A, B)) /\ IsTrue(__gt__(B, A))

\* compare_versions('1.0.0-beta.2', '1.0.0-beta.11') returned 'before'
C5_Witness ==
    /\ ret.op = "compare_versions"
    /\ arg[1] = Just(PyStr(GOLD_STANDARD[5]))
    /\ arg[2] = Just(PyStr(GOLD_STANDARD[6]))
    /\ ret.out = Return(BEFORE)

\* C6: build metadata never influences comparison: replacing, adding or
\* removing the build metadata of either operand leaves a < b, a == b and
\* a > b unchanged, and compare_versions answers 'equal' for two versions that
\* differ only in build metadata.
C6_BuildMetadataIgnored ==
    /\ (BothValid /\ Bound) =>
          \A c \in Versions :
              /\ BeforeFirst(c.text, "+") = BeforeFirst(Text(2), "+") =>
                    /\ __lt__(A, c.obj) = __lt__(A, B)
                    /\ __eq__(A, c.obj) = __eq__(A, B)
                    /\ __gt__(A, c.obj) = __gt__(A, B)
              /\ BeforeFirst(c.text, "+") = BeforeFirst(Text(1), "+") =>
                    /\ __lt__(c.obj, B) = __lt__(A, B)
                    /\ __eq__(c.obj, B) = __eq__(A, B)
                    /\ __gt__(c.obj, B) = __gt__(A, B)
    /\ (BothValid /\ ret.op = "compare_versions"
        /\ BeforeFirst(Text(1), "+") = BeforeFirst(Text(2), "+")) =>
          ret.out = Return(EQUAL)

\* '1.2.3+thing1' == '1.2.3+thing2' was evaluated and is true
C6_Witness ==
    /\ Bound
    /\ Text(1) = <<"1", ".", "2", ".", "3", "+", "t", "h", "i", "n", "g", "1">>
    /\ Text(2) = <<"1", ".", "2", ".", "3", "+", "t", "h", "i", "n", "g", "2">>
    /\ ret.op = "__eq__" /\ IsTrue(ret.out)

\* C7: round trip: for every valid version string s, str(SemverThing(s)) is
\* exactly s.
C7_RoundTrip ==
    (ret.op = "__str__" /\ ValidArg(1)) => ret.out = Return(arg[1][1])

\* str(SemverThing('1.2.3-blah+thing')) returned '1.2.3-blah+thing'
C7_Witness ==
    /\ ret.op = "__str__"
    /\ ValidArg(1)
    /\ Text(1) = <<"1", ".", "2", ".", "3", "-", "b", "l", "a", "h", "+", "t", "h", "i", "n", "g">>
    /\ ret.out = Return(arg[1][1])

\* C8: the parser accepts a string exactly when the whole string, from its
\* first to its last character, is derivable from the grammar.
C8_ParserAcceptsExactlyTheGrammar ==
    \A i \in Slots :
        (arg[i] # None /\ arg[i][1].kind = "str") =>
            (Returned(parse_semver_text(arg[i][1])) <=> Derivable(Text(i)))

\* C9: constructing a SemverThing from a text argument that is not a valid
\* version string raises NotSemanticVersion and binds no object; from a valid
\* one it binds an object whose major, minor and patch are all set.
C9_PopulatedOrRaised ==
    ret.op = "SemverThing" =>
        /\ Returned(ret.out) \/ ret.out.exc = "NotSemanticVersion"
        /\ \A i \in Slots :
              arg[i] # None =>
                  IF ValidArg(i)
                  THEN /\ sv[i] # None
                       /\ sv[i][1].major.kind = "int"
                       /\ sv[i][1].minor.kind = "int"
                       /\ sv[i][1].patch.kind = "int"
                  ELSE sv[i] = None

\* C10: compare_versions returns 'invalid' whenever either argument is not a
\* valid version string, for two valid version strings exactly the one of
\* 'before', 'after', 'equal' that matches v1 < v2, v1 > v2, v1 == v2, and
\* never anything else.
C10_CompareVersionsLabels ==
    ret.op = "compare_versions" =>
        /\ ret.out \in {Return(INVALID), Return(BEFORE), Return(AFTER), Return(EQUAL)}
        /\ ~BothValid => ret.out = Return(INVALID)
        /\ BothValid =>
              /\ Bound
              /\ ret.out = Return(BEFORE) <=> IsTrue(__lt__(A, B))
              /\ ret.out = Return(AFTER) <=> IsTrue(__gt__(A, B))
              /\ ret.out = Return(EQUAL) <=> IsTrue(__eq__(A, B))

\* some of major, minor, patch of the object is None
Unset(o) == PyNone \in {o.major, o.minor, o.patch}

\* major, minor and patch of the object are all ints
Populated(o) == {o.major.kind, o.minor.kind, o.patch.kind} = {"int"}

ComparisonOps == {"__lt__", "__le__", "__gt__", "__ge__", "__eq__", "__ne__"}

\* the text of the three numeric components of a version string
NumericTexts(text) == split(BeforeFirst(BeforeFirst(text, "+"), "-"), ".")

\* the first position where both lists have an identifier and the two
\* differ; 0 when there is none
FirstDiff(one, two) ==
    IF \E k \in 1..Len(one) : k <= Len(two) /\ one[k] # two[k]
    THEN CHOOSE k \in 1..Len(one) :
            /\ k <= Len(two) /\ one[k] # two[k]
            /\ \A j \in 1..(k - 1) : one[j] = two[j]
    ELSE 0

HasLetter(s) == \E i \in 1..Len(s) : s[i] \in LetterOrHyphen \ {"-"}

\* two valid versions with equal triples that both have a prerelease
BothPrereleases ==
    /\ BothValid /\ Bound /\ release(A) = release(B)
    /\ HasPrerelease(Text(1)) /\ HasPrerelease(Text(2))

\* C11: a comparison (<, >, ==, <=, >=, !=) of two objects of which either has
\* major, minor or patch unset raises an error and never returns a boolean,
\* also when only some of the numeric fields are unset.
C11_UnsetComparisonRaises ==
    (Bound /\ ret.op \in ComparisonOps /\ (Unset(A) \/ Unset(B))) =>
        ~Returned(ret.out)

\* C12: two objects with equal major, minor and patch, neither with a
\* prerelease, compare equal in both argument orders (== true, < and > false)
\* however each was built.
C12_EqualHoweverBuilt ==
    (Bound /\ Populated(A) /\ Populated(B) /\ release(A) = release(B)
     /\ ~Truthy(A.prerelease) /\ ~Truthy(B.prerelease)) =>
        /\ IsTrue(__eq__(A, B)) /\ IsTrue(__eq__(B, A))
        /\ IsFalse(__lt__(A, B)) /\ IsFalse(__lt__(B, A))
        /\ IsFalse(__gt__(A, B)) /\ IsFalse(__gt__(B, A))

\* C13: the object built from a valid version string has major, minor and
\* patch equal to the text of the numeric components, and prerelease and
\* buildmetadata, when present, equal to their substrings.
C13_AttributesAreTheTexts ==
    \A i \in Slots :
        (ValidArg(i) /\ sv[i] # None) =>
            /\ sv[i][1].major = PyStr(NumericTexts(Text(i))[1])
            /\ sv[i][1].minor = PyStr(NumericTexts(Text(i))[2])
            /\ sv[i][1].patch = PyStr(NumericTexts(Text(i))[3])
            /\ HasPrerelease(Text(i)) =>
                  sv[i][1].prerelease = PyStr(join(PrereleaseIds(Text(i)), "."))
            /\ IndexOf(Text(i), "+") # 0 =>
                  sv[i][1].buildmetadata
                      = PyStr(Drop(Text(i), IndexOf(Text(i), "+") + 1))

\* C14: str and repr of an object whose major, minor or patch is unset raise
\* an error and never return a string.
C14_UnsetRenderingRaises ==
    (ret.op \in {"__str__", "__repr__"} /\ sv[1] # None /\ Unset(A)) =>
        ~Returned(ret.out)

\* the two identifiers at the first differing position decide as C15 says:
\* when neither is all-digit, by ASCII order of the whole identifiers
WholeIdentifiersDecide(id1, id2) ==
    (~AllDigits(id1) /\ ~AllDigits(id2)) =>
        /\ IsTrue(__lt__(A, B)) <=> StrLess(id1, id2)
        /\ IsTrue(__gt__(A, B)) <=> StrLess(id2, id1)

\* C15: with equal triples and two prereleases, the identifiers are the
\* pieces between the dots, hyphens included: the versions are equal exactly
\* when the identifier lists are, and a first differing pair of identifiers
\* of which neither is all-digit decides by ASCII order of the whole
\* identifiers ('alpha-1' is not equal to 'alpha.1', 'alpha-11' is lower
\* than 'alpha-2').
C15_HyphenStaysInIdentifier ==
    BothPrereleases =>
        /\ IsTrue(__eq__(A, B))
              <=> PrereleaseIds(Text(1)) = PrereleaseIds(Text(2))
        /\ FirstDiff(PrereleaseIds(Text(1)), PrereleaseIds(Text(2))) # 0 =>
              WholeIdentifiersDecide(
                  PrereleaseIds(Text(1))
                      [FirstDiff(PrereleaseIds(Text(1)), PrereleaseIds(Text(2)))],
                  PrereleaseIds(Text(2))
                      [FirstDiff(PrereleaseIds(Text(1)), PrereleaseIds(Text(2)))])

\* the two identifiers at the first differing position decide as C16 says:
\* an all-digit one is below one with a letter, two all-digit ones compare
\* as integers
NumericBelowAlphanumeric(id1, id2) ==
    /\ (AllDigits(id1) /\ HasLetter(id2)) =>
          IsTrue(__lt__(A, B)) /\ IsTrue(__gt__(B, A))
    /\ (HasLetter(id1) /\ AllDigits(id2)) =>
          IsTrue(__gt__(A, B)) /\ IsTrue(__lt__(B, A))
    /\ (AllDigits(id1) /\ AllDigits(id2)) =>
          (IsTrue(__lt__(A, B)) <=> DigitsToInt(id1) < DigitsToInt(id2))

\* C16: at the first position where the prerelease identifiers differ, an
\* all-digit identifier is lower than one containing a letter, whatever the
\* values and whichever side it is on, and two all-digit identifiers are
\* compared as integers.
C16_NumericBelowAlphanumeric ==
    (BothPrereleases
     /\ FirstDiff(PrereleaseIds(Text(1)), PrereleaseIds(Text(2))) # 0) =>
        NumericBelowAlphanumeric(
            PrereleaseIds(Text(1))
                [FirstDiff(PrereleaseIds(Text(1)), PrereleaseIds(Text(2)))],
            PrereleaseIds(Text(2))
                [FirstDiff(PrereleaseIds(Text(1)), PrereleaseIds(Text(2)))])

\* C17: after construction and any sequence of assignments to major, minor
\* and patch, the three are all unset or all non-negative ints.
C17_AllUnsetOrAllSet ==
    \A i \in Slots :
        sv[i] # None =>
            \/ {sv[i][1].major, sv[i][1].minor, sv[i][1].patch} = {PyNone}
            \/ /\ Populated(sv[i][1])
               /\ sv[i][1].major.num >= 0
               /\ sv[i][1].minor.num >= 0
               /\ sv[i][1].patch.num >= 0

====
